---------------------------- MODULE Spec2Model ----------------------------
(***************************************************************************)
(* arg-helper: validateArgs, validateArgument and buildHelpText.           *)
(*                                                                         *)
(* JavaScript values are encoded as TLA+ strings: a JS string is itself,   *)
(* and the non-string values are the bracketed atoms below.  Text that is  *)
(* measured or compared character by character (help text, diagnostics)    *)
(* is a sequence of one-character strings; an ANSI styling code is one     *)
(* element of such a sequence.                                             *)
(***************************************************************************)
EXTENDS Integers, Sequences, FiniteSets, TLC

VARIABLES
  variant,          \* which of the two validateArgs sources is running
  lineLength,       \* the maxArgLineLength handed to a direct buildArgLine call
  args,             \* params.args: the raw argument list
  definition,       \* params.definition
  cleanupFunction,  \* whether params.cleanupFunction was supplied
  arg,              \* the Argument handed to a direct validateArgument call
  parsedArgs,       \* the parsed value mapping (mutated in place)
  origArgs,         \* the mapping as the parser produced it (history)
  pc,               \* position of the running call
  i,                \* index of the for-of loop over definition.arguments
  trace,            \* observable events, in program order
  stdout,           \* texts written with console.log
  stderr,           \* texts written with console.error
  ret               \* the returned value

vars == <<variant, lineLength, args, definition, cleanupFunction, arg, parsedArgs,
          origArgs, pc, i, trace, stdout, stderr, ret>>

-----------------------------------------------------------------------------
(* Bounds of the model *)

MaxArgs == 2

MaxTokens == 2

MaxHelpArgs == 2

MaxWidth == 14

-----------------------------------------------------------------------------
(* JavaScript values *)

Undefined == "<undefined>"

JsTrue == "<true>"

JsFalse == "<false>"

JsObject == "<object>"

NoPositionals == "[]"

\* !!value
Truthy(value) == value \notin {Undefined, JsFalse, ""}

\* a ?? b
Nullish(a, b) == IF a = Undefined THEN b ELSE a

\* the property key a value is converted to when used in obj[key] / key in obj
PropertyKey(k) == IF k = Undefined THEN "undefined" ELSE k

\* key in obj
In(k, obj) == PropertyKey(k) \in DOMAIN obj

\* obj[key]
Get(obj, k) == IF In(k, obj) THEN obj[PropertyKey(k)] ELSE Undefined

\* obj[key] = value
Set(obj, k, value) ==
  [x \in DOMAIN obj \cup {PropertyKey(k)} |->
     IF x = PropertyKey(k) THEN value ELSE obj[x]]

\* delete obj[key]
Delete(obj, k) == [x \in DOMAIN obj \ {PropertyKey(k)} |-> obj[x]]

-----------------------------------------------------------------------------
(* Text *)

\* the characters of the JS strings the model uses
Chars(s) ==
  CASE s = "" -> <<>>
    [] s = "a" -> <<"a">>
    [] s = "b" -> <<"b">>
    [] s = "h" -> <<"h">>
    [] s = "s" -> <<"s">>
    [] s = "t" -> <<"t">>
    [] s = "v" -> <<"v">>
    [] s = "w" -> <<"w">>
    [] s = "x" -> <<"x">>
    [] s = "help" -> <<"h", "e", "l", "p">>
    [] s = "test" -> <<"t", "e", "s", "t">>
    [] s = "verbose" -> <<"v", "e", "r", "b", "o", "s", "e">>
    [] s = "undefined" -> <<"u", "n", "d", "e", "f", "i", "n", "e", "d">>
    [] s = "desc" -> <<"d", "e", "s", "c">>

\* String(value), as a template literal renders it
ValueText(value) ==
  CASE value = Undefined -> <<"u", "n", "d", "e", "f", "i", "n", "e", "d">>
    [] value = JsTrue -> <<"t", "r", "u", "e">>
    [] value = JsFalse -> <<"f", "a", "l", "s", "e">>
    [] value = JsObject -> <<"[", "o", "b", "j", "e", "c", "t", " ", "O", "b", "j", "e", "c", "t", "]">>
    [] OTHER -> Chars(value)

RECURSIVE Repeat(_, _)
\* ch.repeat(n)
Repeat(ch, n) == IF n <= 0 THEN <<>> ELSE <<ch>> \o Repeat(ch, n - 1)

Max(a, b) == IF a > b THEN a ELSE b

\* the styling functions of @std/fmt/colors: an opening code, the text, a closing code
AnsiCodes == {"ESC[31m", "ESC[33m", "ESC[35m", "ESC[36m", "ESC[39m"}

red(text) == <<"ESC[31m">> \o text \o <<"ESC[39m">>

yellow(text) == <<"ESC[33m">> \o text \o <<"ESC[39m">>

magenta(text) == <<"ESC[35m">> \o text \o <<"ESC[39m">>

cyan(text) == <<"ESC[36m">> \o text \o <<"ESC[39m">>

\* stripAnsiCode of @std/fmt/colors, as the tests use it to read plain text
stripAnsiCode(text) == SelectSeq(text, LAMBDA c : c \notin AnsiCodes)

-----------------------------------------------------------------------------
(* validateArgument *)

\* the validation rules a declaration may carry (Argument.validationFunction)
ValidationFunctions == {"always", "never", "isV"}

\* the message functions a declaration may carry (Argument.validationFailedMessage)
MessageFunctions == {"rejected"}

\* calling a declared validationFunction on a value
CallValidationFunction(fn, value) ==
  CASE fn = "always" -> TRUE
    [] fn = "never" -> FALSE
    [] fn = "isV" -> value = "v"

\* calling a declared validationFailedMessage on a value: value => `${value} rejected`
CallMessageFunction(fn, value) == ValueText(value) \o <<" ", "r", "e", "j", "e", "c", "t", "e", "d">>

\* (value) => !!value || arg.required === false
defaultValidationFunction(a, value) == Truthy(value) \/ a.required = JsFalse

\* () => `is a required argument`
defaultErrorMessage == <<"i", "s", " ", "a", " ", "r", "e", "q", "u", "i", "r", "e", "d", " ", "a", "r", "g", "u", "m", "e", "n", "t">>

\* arg.validationFunction ?? defaultValidationFunction, applied
validationFunction(a, value) ==
  IF a.validationFunction # Undefined
    THEN CallValidationFunction(a.validationFunction, value)
    ELSE defaultValidationFunction(a, value)

\* the declared message function is ignored
errorMessage_AlwaysDefault(a, value) == defaultErrorMessage

\* arg.validationFailedMessage ?? defaultErrorMessage, applied
errorMessage(a, value) ==
  IF a.validationFailedMessage # Undefined
    THEN CallMessageFunction(a.validationFailedMessage, value)
    ELSE defaultErrorMessage

\* arg.name in parsedArgs ? parsedArgs[arg.name] : parsedArgs[arg.shortName ?? '']
argValue(parsed, a) ==
  IF In(a.name, parsed)
    THEN Get(parsed, a.name)
    ELSE Get(parsed, Nullish(a.shortName, ""))

\* validateArgument(parsedArgs, arg): the verdict and what console.error received
validateArgument(parsed, a) ==
  IF ~validationFunction(a, argValue(parsed, a))
    THEN [ok |-> FALSE,
          errors |-> <<red(Chars(a.name) \o <<":", " ">>
                          \o errorMessage(a, argValue(parsed, a)))>>]
    ELSE [ok |-> TRUE, errors |-> <<>>]

-----------------------------------------------------------------------------
(* buildHelpText and its line formatters *)

\* array[k] of a JS array (0-based k), undefined past its end
At(array, k) == IF k + 1 <= Len(array) THEN array[k + 1] ELSE Undefined

\* text.indexOf(sep) + 1, 0 when sep does not occur
IndexOf(text, sep) ==
  IF \E k \in 1..Len(text) : text[k] = sep
    THEN CHOOSE k \in 1..Len(text) :
           text[k] = sep /\ \A j \in 1..(k - 1) : text[j] # sep
    ELSE 0

RECURSIVE Split(_, _)
\* text.split(sep)
Split(text, sep) ==
  IF IndexOf(text, sep) = 0
    THEN <<text>>
    ELSE <<SubSeq(text, 1, IndexOf(text, sep) - 1)>>
           \o Split(SubSeq(text, IndexOf(text, sep) + 1, Len(text)), sep)

RECURSIVE Join(_, _)
\* parts.join(sep)
Join(parts, sep) ==
  IF Len(parts) = 0 THEN <<>>
  ELSE IF Len(parts) = 1 THEN parts[1]
  ELSE parts[1] \o <<sep>> \o Join(Tail(parts), sep)

\* colorFn(it), for a styling function passed by name
CallColor(colorFn, it) ==
  CASE colorFn = "cyan" -> cyan(it)
    [] colorFn = "magenta" -> magenta(it)
    [] colorFn = "red" -> red(it)
    [] colorFn = "yellow" -> yellow(it)

\* argText.split(',').map((it) => colorFn(it)).join(',')
colorArg(argText, colorFn) ==
  Join([k \in 1..Len(Split(argText, ",")) |->
          CallColor(colorFn, Split(argText, ",")[k])], ",")

\* '--' + name + (shortName ? ', -' + shortName : '')
Label(name, shortName) ==
  <<"-", "-">> \o Chars(name)
    \o (IF Truthy(shortName) THEN <<",", " ", "-">> \o Chars(shortName) ELSE <<>>)

\* getArgLineLength([name, shortName])
getArgLineLength(pair) == Len(Label(At(pair, 0), At(pair, 1)))

\* buildArgLine with the padding computed as maxArgLineLength - argLength + 4,
\* without the Math.max floor of 4
buildArgLine_NoFloor(a, maxArgLineLength) ==
  LET argText == Label(a.name, a.shortName)
      extraEndSpaceCount == maxArgLineLength - Len(argText) + 4
  IN  <<" ", " ">> \o colorArg(argText, "cyan")
        \o Repeat(" ", extraEndSpaceCount)
        \o (IF a.required # Undefined /\ ~Truthy(a.required)
              THEN yellow(<<"(", "o", "p", "t", "i", "o", "n", "a", "l", ")">>)
              ELSE magenta(<<"(", "r", "e", "q", "u", "i", "r", "e", "d", ")">>))
        \o <<" ", "-", " ">> \o Chars(a.description)

\* buildArgLine(arg, maxArgLineLength)
buildArgLine(a, maxArgLineLength) ==
  LET argText == Label(a.name, a.shortName)
      extraEndSpaceCount == Max(maxArgLineLength - Len(argText) + 4, 4)
  IN  <<" ", " ">> \o colorArg(argText, "cyan")
        \o Repeat(" ", extraEndSpaceCount)
        \o (IF a.required # Undefined /\ ~Truthy(a.required)
              THEN yellow(<<"(", "o", "p", "t", "i", "o", "n", "a", "l", ")">>)
              ELSE magenta(<<"(", "r", "e", "q", "u", "i", "r", "e", "d", ")">>))
        \o <<" ", "-", " ">> \o Chars(a.description)

\* buildHelpLine([name, shortName], maxArgLineLength)
buildHelpLine(pair, maxArgLineLength) ==
  LET helpLine == Label(At(pair, 0), At(pair, 1))
      spaceCount == Max(3, maxArgLineLength - Len(helpLine) + 3)
  IN  <<" ", " ">> \o colorArg(helpLine, "cyan")
        \o Repeat(" ", spaceCount) \o <<" ", "-", " ", "s", "h", "o", "w", " ", "t", "h", "i", "s", " ", "h", "e", "l", "p", " ", "t", "e", "x", "t">>

\* argNames: one [name, shortName] per declared argument, then the pushed ['']
argNames(def) ==
  [k \in 1..Len(def.arguments) |->
     <<def.arguments[k].name, def.arguments[k].shortName>>] \o << <<"">> >>

RECURSIVE ReduceMax(_)
\* lengths.reduce((max, current) => max < current ? current : max)
ReduceMax(lengths) ==
  IF Len(lengths) = 1 THEN lengths[1]
  ELSE LET max == ReduceMax(SubSeq(lengths, 1, Len(lengths) - 1))
           current == lengths[Len(lengths)]
       IN  IF max < current THEN current ELSE max

\* argNames.map(getArgLineLength).reduce(...)
maxArgLineLength(def) ==
  ReduceMax([k \in 1..Len(argNames(def)) |-> getArgLineLength(argNames(def)[k])])

RECURSIVE ArgLines_Reversed(_, _, _)
\* the argument lines are emitted last declaration first
ArgLines_Reversed(def, k, width) ==
  IF k > Len(def.arguments) THEN <<>>
  ELSE ArgLines_Reversed(def, k + 1, width)
         \o buildArgLine(def.arguments[k], width) \o <<"\n">>

RECURSIVE ArgLines(_, _, _)
\* for (const arg of definition.arguments) helpText += buildArgLine(arg, max) + '\n'
ArgLines(def, k, width) ==
  IF k > Len(def.arguments) THEN <<>>
  ELSE buildArgLine(def.arguments[k], width) \o <<"\n">> \o ArgLines(def, k + 1, width)

\* the pair the help-flag line is built from
HelpLineFlags(def) ==
  IF def.helpFlags # Undefined THEN def.helpFlags ELSE <<"help", "h">>

\* buildHelpText(definition)
buildHelpText(def) ==
  Chars(def.scriptDescription) \o <<"\n", "A", "r", "g", "u", "m", "e", "n", "t", "s", ":", "\n">>
    \o ArgLines(def, 1, maxArgLineLength(def))
    \o <<"\n">>
    \o buildHelpLine(HelpLineFlags(def), maxArgLineLength(def))

-----------------------------------------------------------------------------
(* parseArgs of @std/cli, called without parseOptions *)

\* A raw token is modelled by the key it sets and the value it sets it to:
\* '--a=v' is [key |-> "a", val |-> "v"], a bare '-h' sets its key to true, a
\* dotted flag such as '--.x=1' sets the key '' to a nested object, and a
\* token without dashes is appended to the positionals under '_'.
Positional == [key |-> "_", val |-> "p"]

AppendPositional(list) ==
  CASE list = "[]" -> "[p]"
    [] list = "[p]" -> "[p,p]"
    [] list = "[p,p]" -> "[p,p,p]"
    [] OTHER -> "[p,...]"

RECURSIVE parseArgs(_)
parseArgs(raw) ==
  IF Len(raw) = 0 THEN ("_" :> NoPositionals)
  ELSE LET argv == parseArgs(SubSeq(raw, 1, Len(raw) - 1))
           token == raw[Len(raw)]
       IN  IF token = Positional
             THEN Set(argv, "_", AppendPositional(argv["_"]))
             ELSE Set(argv, token.key, token.val)

-----------------------------------------------------------------------------
(* validateArgs *)

Event(name, n) == [ev |-> name, n |-> n]

\* the cleanup callback is never called
CallCleanup_Skipped == <<>>

\* cleanupFunction?.()
CallCleanup == IF cleanupFunction THEN <<Event("cleanup", 0)>> ELSE <<>>

\* definition.helpFlags ?? ['help', 'h']
helpFlags(def) == Nullish(def.helpFlags, <<"help", "h">>)

\* the gate without its empty-invocation test
HelpGate_FlagsOnly(raw, def, parsed) ==
  \/ In(At(Nullish(def.helpFlags, <<"help", "h">>), 0), parsed)
  \/ In(At(Nullish(def.helpFlags, <<"help", "h">>), 1), parsed)

\* (args.length === 0 && definition.anyArgRequired) || helpFlags[0] in parsedArgs
\*   || helpFlags[1] as string in parsedArgs
HelpGate(raw, def, parsed) ==
  \/ Len(raw) = 0 /\ Truthy(def.anyArgRequired)
  \/ In(At(helpFlags(def), 0), parsed)
  \/ In(At(helpFlags(def), 1), parsed)

\* helpFlags[0] in parsedArgs || helpFlags[1] as string in parsedArgs
HelpGate2(def, parsed) ==
  \/ In(At(helpFlags(def), 0), parsed)
  \/ In(At(helpFlags(def), 1), parsed)

\* the long name is written but the short-name key is left in place
Normalize_KeepShort(parsed, a) ==
  Set(parsed, a.name, Nullish(Get(parsed, a.name), Get(parsed, a.shortName)))

\* const value = parsedArgs[arg.name] ?? parsedArgs[arg.shortName!];
\* delete parsedArgs[arg.shortName ?? '']; parsedArgs[arg.name] = value;
Normalize(parsed, a) ==
  Set(Delete(parsed, Nullish(a.shortName, "")), a.name,
      Nullish(Get(parsed, a.name), Get(parsed, a.shortName)))

\* lines 66-78: parse, build the help text, the help gate
validateArgs_begin ==
  /\ pc = "start" /\ variant = 1
  /\ parsedArgs' = parseArgs(args)
  /\ origArgs' = parseArgs(args)
  /\ IF HelpGate(args, definition, parseArgs(args))
       THEN /\ stdout' = Append(stdout, buildHelpText(definition))
            /\ trace' = trace \o <<Event("log", 0)>> \o CallCleanup
                              \o <<Event("exit", 0)>>
            /\ pc' = "exited"
            /\ i' = i
       ELSE /\ pc' = "loop"
            /\ i' = 1
            /\ UNCHANGED <<stdout, trace>>
  /\ UNCHANGED <<variant, lineLength, args, definition, cleanupFunction, arg, stderr, ret>>

\* the loop goes on to the next argument after a failed one
validateArgs_loop_CollectAll ==
  /\ pc = "loop" /\ variant = 1 /\ i <= Len(definition.arguments)
  /\ LET a == definition.arguments[i]
         r == validateArgument(parsedArgs, a)
     IN  /\ stderr' = stderr \o r.errors
         /\ parsedArgs' = IF r.ok THEN Normalize(parsedArgs, a) ELSE parsedArgs
         /\ trace' = trace \o <<Event("validate", i)>>
                           \o (IF r.ok THEN <<>> ELSE <<Event("error", i)>>)
                           \o (IF r.ok \/ i < Len(definition.arguments) THEN <<>>
                               ELSE <<Event("log", 0)>> \o CallCleanup
                                      \o <<Event("exit", 1)>>)
         /\ stdout' = IF r.ok \/ i < Len(definition.arguments) THEN stdout
                      ELSE Append(stdout, buildHelpText(definition))
         /\ pc' = IF r.ok \/ i < Len(definition.arguments) THEN pc ELSE "exited"
         /\ i' = IF r.ok \/ i < Len(definition.arguments) THEN i + 1 ELSE i
  /\ UNCHANGED <<variant, lineLength, args, definition, cleanupFunction, arg, origArgs, ret>>

\* lines 79-91: one iteration of the loop over definition.arguments
validateArgs_loop ==
  /\ pc = "loop" /\ variant = 1 /\ i <= Len(definition.arguments)
  /\ LET a == definition.arguments[i]
         r == validateArgument(parsedArgs, a)
     IN  /\ stderr' = stderr \o r.errors
         /\ IF r.ok
              THEN /\ parsedArgs' = Normalize(parsedArgs, a)
                   /\ trace' = trace \o <<Event("validate", i)>>
                   /\ i' = i + 1
                   /\ UNCHANGED <<pc, stdout>>
              ELSE /\ stdout' = Append(stdout, buildHelpText(definition))
                   /\ trace' = trace \o <<Event("validate", i), Event("error", i),
                                           Event("log", 0)>>
                                     \o CallCleanup \o <<Event("exit", 1)>>
                   /\ pc' = "exited"
                   /\ UNCHANGED <<parsedArgs, i>>
  /\ UNCHANGED <<variant, lineLength, args, definition, cleanupFunction, arg, origArgs, ret>>

\* line 93: return parsedArgs
validateArgs_return ==
  /\ pc = "loop" /\ variant = 1 /\ i > Len(definition.arguments)
  /\ ret' = parsedArgs
  /\ trace' = trace \o <<Event("return", 0)>>
  /\ pc' = "returned"
  /\ UNCHANGED <<variant, lineLength, args, definition, cleanupFunction, arg, parsedArgs,
                 origArgs, i, stdout, stderr>>

\* lines 256-262: parse, and print the help text when a help flag is present
validateArgs2_begin ==
  /\ pc = "start" /\ variant = 2
  /\ parsedArgs' = parseArgs(args)
  /\ origArgs' = parseArgs(args)
  /\ IF HelpGate2(definition, parseArgs(args))
       THEN /\ stdout' = Append(stdout, buildHelpText(definition))
            /\ trace' = trace \o <<Event("log", 0)>>
       ELSE UNCHANGED <<stdout, trace>>
  /\ pc' = "loop"
  /\ i' = 1
  /\ UNCHANGED <<variant, lineLength, args, definition, cleanupFunction, arg, stderr, ret>>

\* lines 263-274: one iteration of the loop over definition.arguments
validateArgs2_loop ==
  /\ pc = "loop" /\ variant = 2 /\ i <= Len(definition.arguments)
  /\ LET a == definition.arguments[i]
         r == validateArgument(parsedArgs, a)
     IN  /\ stderr' = stderr \o r.errors
         /\ IF r.ok
              THEN /\ parsedArgs' = Normalize(parsedArgs, a)
                   /\ trace' = trace \o <<Event("validate", i)>>
                   /\ i' = i + 1
                   /\ UNCHANGED pc
              ELSE /\ trace' = trace \o <<Event("validate", i), Event("error", i)>>
                                     \o CallCleanup \o <<Event("exit", 1)>>
                   /\ pc' = "exited"
                   /\ UNCHANGED <<parsedArgs, i>>
  /\ UNCHANGED <<variant, lineLength, args, definition, cleanupFunction, arg, origArgs,
                 stdout, ret>>

\* line 276: return parsedArgs
validateArgs2_return ==
  /\ pc = "loop" /\ variant = 2 /\ i > Len(definition.arguments)
  /\ ret' = parsedArgs
  /\ trace' = trace \o <<Event("return", 0)>>
  /\ pc' = "returned"
  /\ UNCHANGED <<variant, lineLength, args, definition, cleanupFunction, arg, parsedArgs,
                 origArgs, i, stdout, stderr>>

-----------------------------------------------------------------------------
(* Inputs *)

\* sequences of at most n declarations with pairwise distinct long names
ArgumentLists(decls, n) ==
  {l \in UNION {[1..k -> decls] : k \in 0..n} :
     \A p, q \in 1..Len(l) : p # q => l[p].name # l[q].name}

\* the declarations validateArgs is run on
Arguments ==
  [name : {"a", "t"},
   shortName : {Undefined, "s"},
   description : {"desc"},
   required : {Undefined, JsFalse},
   validationFunction : {Undefined},
   validationFailedMessage : {Undefined}]

Definitions ==
  [arguments : ArgumentLists(Arguments, MaxArgs),
   scriptDescription : {"desc"},
   helpFlags : {Undefined, <<"x">>},
   anyArgRequired : {Undefined, JsTrue}]

\* the raw tokens validateArgs is run on
Tokens ==
  [key : {"a", "t", "s"}, val : {"v", JsFalse}]
    \cup [key : {"h", "x", "undefined"}, val : {JsTrue}]
    \cup {[key |-> "", val |-> JsObject], Positional}

RawArgs == UNION {[1..k -> Tokens] : k \in 0..MaxTokens}

\* the declarations the normalisation of validateArgs is run on
NormalizeArguments ==
  [name : {"a", "t"},
   shortName : {Undefined, "t", "s"},
   description : {"desc"},
   required : {Undefined, JsFalse},
   validationFunction : {Undefined, "isV"},
   validationFailedMessage : {Undefined}]

NormalizeDefinitions ==
  [arguments : ArgumentLists(NormalizeArguments, MaxArgs),
   scriptDescription : {"desc"},
   helpFlags : {Undefined},
   anyArgRequired : {Undefined}]

\* the raw tokens the normalisation of validateArgs is run on
NormalizeTokens ==
  [key : {"a", "t", "s"}, val : {"v", "w", JsFalse}]
    \cup [key : {"h", "undefined"}, val : {JsTrue}]
    \cup {[key |-> "", val |-> JsObject], Positional}

NormalizeRawArgs == UNION {[1..k -> NormalizeTokens] : k \in 0..MaxTokens}

\* the declarations validateArgument is called on directly
DirectArguments ==
  [name : {"a", "t"},
   shortName : {Undefined, "t", "s"},
   description : {"desc"},
   required : {Undefined, JsTrue, JsFalse},
   validationFunction : {Undefined} \cup ValidationFunctions,
   validationFailedMessage : {Undefined} \cup MessageFunctions]

\* the mappings validateArgument is called on directly: parser output
DirectParsed == {parseArgs(raw) : raw \in NormalizeRawArgs}

\* the declarations buildHelpText is called on
HelpArguments ==
  [name : {"a", "test", "verbose"},
   shortName : {Undefined, "s"},
   description : {"", "desc"},
   required : {Undefined, JsTrue, JsFalse},
   validationFunction : {Undefined},
   validationFailedMessage : {Undefined}]

HelpDefinitions ==
  [arguments : ArgumentLists(HelpArguments, MaxHelpArgs),
   scriptDescription : {"", "desc"},
   helpFlags : {Undefined, <<"x">>, <<"verbose", "v">>},
   anyArgRequired : {Undefined}]

NoArgument ==
  [name |-> "", shortName |-> Undefined, description |-> "",
   required |-> Undefined, validationFunction |-> Undefined,
   validationFailedMessage |-> Undefined]

NoDefinition ==
  [arguments |-> <<>>, scriptDescription |-> "", helpFlags |-> Undefined,
   anyArgRequired |-> Undefined]

-----------------------------------------------------------------------------
(* validateArgs({ args, definition, cleanupFunction }) *)

Init ==
  /\ variant \in {1, 2}
  /\ lineLength = 0
  /\ args \in RawArgs
  /\ definition \in Definitions
  /\ cleanupFunction \in BOOLEAN
  /\ arg = NoArgument
  /\ parsedArgs = <<>>
  /\ origArgs = <<>>
  /\ pc = "start"
  /\ i = 0
  /\ trace = <<>>
  /\ stdout = <<>>
  /\ stderr = <<>>
  /\ ret = Undefined

Next ==
  \/ validateArgs_begin
  \/ validateArgs_loop
  \/ validateArgs_return
  \/ validateArgs2_begin
  \/ validateArgs2_loop
  \/ validateArgs2_return

Spec == Init /\ [][Next]_vars

-----------------------------------------------------------------------------
(* validateArgs (lines 66-94) on declarations with short names and custom   *)
(* rules: the validation loop and its rewriting of the mapping              *)

InitNormalize ==
  /\ variant = 1
  /\ lineLength = 0
  /\ args \in NormalizeRawArgs
  /\ definition \in NormalizeDefinitions
  /\ cleanupFunction = FALSE
  /\ arg = NoArgument
  /\ parsedArgs = <<>>
  /\ origArgs = <<>>
  /\ pc = "start"
  /\ i = 0
  /\ trace = <<>>
  /\ stdout = <<>>
  /\ stderr = <<>>
  /\ ret = Undefined

NextNormalize ==
  \/ validateArgs_begin
  \/ validateArgs_loop
  \/ validateArgs_return

SpecNormalize == InitNormalize /\ [][NextNormalize]_vars

-----------------------------------------------------------------------------
(* validateArgument(parsedArgs, arg), called directly *)

InitArg ==
  /\ variant = 1
  /\ lineLength = 0
  /\ args = <<>>
  /\ definition = NoDefinition
  /\ cleanupFunction = FALSE
  /\ arg \in DirectArguments
  /\ parsedArgs \in DirectParsed
  /\ origArgs = parsedArgs
  /\ pc = "start"
  /\ i = 0
  /\ trace = <<>>
  /\ stdout = <<>>
  /\ stderr = <<>>
  /\ ret = Undefined

\* lines 96-116
validateArgument_call ==
  /\ pc = "start"
  /\ stderr' = stderr \o validateArgument(parsedArgs, arg).errors
  /\ ret' = validateArgument(parsedArgs, arg).ok
  /\ pc' = "returned"
  /\ UNCHANGED <<variant, lineLength, args, definition, cleanupFunction, arg, parsedArgs,
                 origArgs, i, trace, stdout>>

NextArg == validateArgument_call

SpecArg == InitArg /\ [][NextArg]_vars

-----------------------------------------------------------------------------
(* buildHelpText(definition), called directly *)

InitHelp ==
  /\ variant = 1
  /\ lineLength = 0
  /\ args = <<>>
  /\ definition \in HelpDefinitions
  /\ cleanupFunction = FALSE
  /\ arg = NoArgument
  /\ parsedArgs = <<>>
  /\ origArgs = <<>>
  /\ pc = "start"
  /\ i = 0
  /\ trace = <<>>
  /\ stdout = <<>>
  /\ stderr = <<>>
  /\ ret = Undefined

\* lines 156-177
buildHelpText_call ==
  /\ pc = "start"
  /\ ret' = buildHelpText(definition)
  /\ pc' = "returned"
  /\ UNCHANGED <<variant, lineLength, args, definition, cleanupFunction, arg, parsedArgs,
                 origArgs, i, trace, stdout, stderr>>

NextHelp == buildHelpText_call

SpecHelp == InitHelp /\ [][NextHelp]_vars

-----------------------------------------------------------------------------
(* buildArgLine(arg, maxArgLineLength), called directly *)

\* the declarations handed to buildArgLine: with no short name, with an
\* empty one and with a one-letter one
LineArguments ==
  [name : {"a", "test", "verbose"},
   shortName : {Undefined, "", "s"},
   description : {"", "desc"},
   required : {Undefined, JsTrue, JsFalse},
   validationFunction : {Undefined},
   validationFailedMessage : {Undefined}]

InitLine ==
  /\ variant = 1
  /\ lineLength \in 0..MaxWidth
  /\ args = <<>>
  /\ definition = NoDefinition
  /\ cleanupFunction = FALSE
  /\ arg \in LineArguments
  /\ parsedArgs = <<>>
  /\ origArgs = <<>>
  /\ pc = "start"
  /\ i = 0
  /\ trace = <<>>
  /\ stdout = <<>>
  /\ stderr = <<>>
  /\ ret = Undefined

\* lines 182-203
buildArgLine_call ==
  /\ pc = "start"
  /\ ret' = buildArgLine(arg, lineLength)
  /\ pc' = "returned"
  /\ UNCHANGED <<variant, lineLength, args, definition, cleanupFunction, arg, parsedArgs,
                 origArgs, i, trace, stdout, stderr>>

NextLine == buildArgLine_call

SpecLine == InitLine /\ [][NextLine]_vars

-----------------------------------------------------------------------------
(* Reading the observable events *)

Last(seq) == seq[Len(seq)]

Count(name) == Len(SelectSeq(trace, LAMBDA e : e.ev = name))

\* position of the first event with this name, 0 when there is none
Position(name) ==
  IF \E k \in 1..Len(trace) : trace[k].ev = name
    THEN CHOOSE k \in 1..Len(trace) :
           trace[k].ev = name /\ \A j \in 1..(k - 1) : trace[j].ev # name
    ELSE 0

\* the diagnostic, styling stripped, begins with the name and ': '
StartsWithName(text, name) ==
  LET plain == stripAnsiCode(text)
      prefix == Chars(name) \o <<":", " ">>
  IN  Len(plain) >= Len(prefix) /\ SubSeq(plain, 1, Len(prefix)) = prefix

Exited(status) ==
  pc = "exited" /\ Len(trace) > 0 /\ Last(trace) = Event("exit", status)

\* the configured help flags: definition.helpFlags, by default ('help', 'h')
LongHelpFlag == IF definition.helpFlags # Undefined THEN definition.helpFlags[1] ELSE "help"

ShortHelpFlag ==
  IF definition.helpFlags = Undefined THEN "h"
  ELSE IF Len(definition.helpFlags) >= 2 THEN definition.helpFlags[2]
  ELSE Undefined

HelpFlagPassed ==
  \/ LongHelpFlag \in DOMAIN origArgs
  \/ ShortHelpFlag # Undefined /\ ShortHelpFlag \in DOMAIN origArgs

-----------------------------------------------------------------------------
(* C1: whenever the parsed mapping holds the configured long or short help  *)
(* flag, validateArgs writes the help text to standard output and exits     *)
(* with status 0, validating no declared argument and emitting no           *)
(* diagnostic.                                                              *)
C1_HelpFlagExitsZero ==
  (pc # "start" /\ HelpFlagPassed) =>
     /\ Exited(0)
     /\ stdout = <<buildHelpText(definition)>>
     /\ Count("validate") = 0
     /\ stderr = <<>>

-----------------------------------------------------------------------------
-----------------------------------------------------------------------------
(* C5: when a declared argument fails validation, the diagnostic of the     *)
(* failing argument is written to the error channel, then the full help     *)
(* text to standard output, then the process exits with status 1, and no    *)
(* mapping is returned.                                                     *)
C5_DiagnosticThenHelpThenExit ==
  Exited(1) =>
     /\ Count("error") = 1
     /\ Len(stderr) = 1
     /\ Len(stdout) >= 1 /\ Last(stdout) = buildHelpText(definition)
     /\ Position("error") < Position("log")
     /\ Position("log") < Position("exit")
     /\ \A k \in 1..Len(trace) : trace[k].ev = "log" => Position("error") < k
     /\ ret = Undefined

-----------------------------------------------------------------------------
C6_WitnessReturn ==
  /\ variant = 1 /\ Len(args) = 0 /\ Len(definition.arguments) = 0
  /\ definition.anyArgRequired = Undefined /\ pc = "returned"

-----------------------------------------------------------------------------
(* Reading the declaration *)

Declared == {definition.arguments[k] : k \in 1..Len(definition.arguments)}

LongNames == {a.name : a \in Declared}

ShortNames == {a.shortName : a \in Declared} \ {Undefined}

\* no short name is also a long name, and no two arguments share a short name
ShortNamesUnambiguous ==
  /\ ShortNames \cap LongNames = {}
  /\ \A p, q \in 1..Len(definition.arguments) :
       (p # q /\ definition.arguments[p].shortName # Undefined)
         => definition.arguments[p].shortName # definition.arguments[q].shortName

-----------------------------------------------------------------------------
(* C2: after validateArgs returns, every declared argument that is required *)
(* (required is not false) and has no custom validation rule has a present, *)
(* truthy value under its long-name key in the returned mapping.            *)
C2_RequiredPresentAndTruthy ==
  pc = "returned" =>
    \A a \in Declared :
      (a.required # JsFalse /\ a.validationFunction = Undefined)
        => (a.name \in DOMAIN ret /\ Truthy(ret[a.name]))

-----------------------------------------------------------------------------
(* C3: after validateArgs returns, the returned mapping holds no key equal  *)
(* to the short name of a declared argument, and an argument supplied only  *)
(* in its short form has the supplied value under its long-name key.        *)
C3_NoShortKeysLeft ==
  pc = "returned" =>
    \A a \in Declared :
      a.shortName # Undefined =>
        /\ a.shortName \notin DOMAIN ret
        /\ (a.shortName \in DOMAIN origArgs /\ a.name \notin DOMAIN origArgs)
             => (a.name \in DOMAIN ret /\ ret[a.name] = origArgs[a.shortName])

(* C3, amended: the same, for declarations in which no short name equals a  *)
(* declared long name and no two arguments share a short name.              *)
C3_NoShortKeysLeft_Unambiguous == ShortNamesUnambiguous => C3_NoShortKeysLeft

C3_Witness ==
  /\ pc = "returned" /\ ShortNamesUnambiguous
  /\ \E a \in Declared :
       /\ a.shortName # Undefined
       /\ a.shortName \in DOMAIN origArgs /\ a.name \notin DOMAIN origArgs
       /\ a.shortName \notin DOMAIN ret
       /\ ret[a.name] = origArgs[a.shortName]

-----------------------------------------------------------------------------
(* C7: validateArgument returns the custom rule's verdict on the looked-up  *)
(* value whenever a custom rule is declared, and otherwise true exactly     *)
(* when the looked-up value is truthy or required is explicitly false; the  *)
(* looked-up value is the long-name key's value if that key is present,     *)
(* else the short-name key's value if a short name is declared, else        *)
(* absent.                                                                  *)
C7_LookedUp ==
  IF arg.name \in DOMAIN parsedArgs THEN parsedArgs[arg.name]
  ELSE IF arg.shortName # Undefined /\ arg.shortName \in DOMAIN parsedArgs
         THEN parsedArgs[arg.shortName]
  ELSE Undefined

C7_Verdict ==
  pc = "returned" =>
    ret = IF arg.validationFunction # Undefined
            THEN CallValidationFunction(arg.validationFunction, C7_LookedUp)
            ELSE Truthy(C7_LookedUp) \/ arg.required = JsFalse

-----------------------------------------------------------------------------
-----------------------------------------------------------------------------
(* Reading the help text *)

\* the lines of the returned help text, styling stripped
HelpLines == Split(stripAnsiCode(ret), "\n")

StartsWith(text, prefix) ==
  Len(text) >= Len(prefix) /\ SubSeq(text, 1, Len(prefix)) = prefix

EndsWith(text, suffix) ==
  Len(text) >= Len(suffix)
    /\ SubSeq(text, Len(text) - Len(suffix) + 1, Len(text)) = suffix

\* the column at which the text after the padding begins: the first
\* character that is not a space and follows two spaces, past the indentation
TextColumn(line) ==
  CHOOSE k \in 4..Len(line) :
    /\ line[k] # " " /\ line[k - 1] = " " /\ line[k - 2] = " "
    /\ \A j \in 4..(k - 1) : ~(line[j] # " " /\ line[j - 1] = " " /\ line[j - 2] = " ")

-----------------------------------------------------------------------------
(* C9: with styling stripped, the text after the padding (the annotation on *)
(* an argument line, '- show this help text' on the help-flag line) begins  *)
(* at the same column on every argument line and on the help-flag line,     *)
(* also when the help-flag label is the longest label.                      *)
C9_ColumnsAligned ==
  pc = "returned" =>
    \A p, q \in 3..Len(HelpLines) :
      (HelpLines[p] # <<>> /\ HelpLines[q] # <<>>)
        => TextColumn(HelpLines[p]) = TextColumn(HelpLines[q])

-----------------------------------------------------------------------------
(* C10: buildHelpText is scriptDescription, '\nArguments:\n', one formatted *)
(* line per declared argument in declaration order, each followed by a      *)
(* newline, an empty line, and the help-flag line without a trailing        *)
(* newline; the help-flag line uses definition.helpFlags when given and     *)
(* ('help', 'h') otherwise; an empty argument list is handled too.          *)
C10_HelpFlagLabel ==
  IF definition.helpFlags = Undefined THEN <<"-", "-", "h", "e", "l", "p", ",", " ", "-", "h">>
  ELSE <<"-", "-">> \o Chars(definition.helpFlags[1])
         \o (IF Len(definition.helpFlags) >= 2
               THEN <<",", " ", "-">> \o Chars(definition.helpFlags[2])
               ELSE <<>>)

C10_Layout ==
  pc = "returned" =>
    LET n == Len(definition.arguments) IN
    /\ Len(HelpLines) = n + 4
    /\ HelpLines[1] = Chars(definition.scriptDescription)
    /\ HelpLines[2] = <<"A", "r", "g", "u", "m", "e", "n", "t", "s", ":">>
    /\ \A k \in 1..n :
         LET a == definition.arguments[k] IN
         /\ StartsWith(HelpLines[2 + k],
                       <<" ", " ", "-", "-">> \o Chars(a.name)
                         \o (IF a.shortName # Undefined
                               THEN <<",", " ", "-">> \o Chars(a.shortName)
                               ELSE <<>>)
                         \o <<" ", " ", " ", " ">>)
         /\ EndsWith(HelpLines[2 + k],
                     (IF a.required = JsFalse THEN <<"(", "o", "p", "t", "i", "o", "n", "a", "l", ")">> ELSE <<"(", "r", "e", "q", "u", "i", "r", "e", "d", ")">>)
                       \o <<" ", "-", " ">> \o Chars(a.description))
    /\ HelpLines[n + 3] = <<>>
    /\ StartsWith(HelpLines[n + 4], <<" ", " ">> \o C10_HelpFlagLabel \o <<" ", " ", " ">>)
    /\ EndsWith(HelpLines[n + 4], <<" ", "-", " ", "s", "h", "o", "w", " ", "t", "h", "i", "s", " ", "h", "e", "l", "p", " ", "t", "e", "x", "t">>)
    /\ Last(ret) # "\n"

C10_Witness ==
  /\ pc = "returned"
  /\ Len(definition.arguments) = 2
  /\ definition.arguments[1].name = "verbose"
  /\ definition.arguments[2].name = "a"
  /\ definition.helpFlags = <<"x">>
  /\ Len(HelpLines) = 6

C10_WitnessEmpty ==
  pc = "returned" /\ Len(definition.arguments) = 0 /\ Len(HelpLines) = 4

-----------------------------------------------------------------------------
(* C11: validateArgs validates the declared arguments in declaration order  *)
(* and stops at the first that fails: exactly one diagnostic is emitted,    *)
(* that of the first failing argument, and the rule of no later argument is *)
(* invoked.                                                                 *)
Validated == SelectSeq(trace, LAMBDA e : e.ev = "validate")

C11_FirstFailureWins ==
  /\ \A k \in 1..Len(Validated) : Validated[k].n = k
  /\ Count("error") <= 1 /\ Len(stderr) = Count("error")
  /\ Count("error") = 1 =>
       /\ Exited(1)
       /\ trace[Position("error")].n = Len(Validated)
       /\ \A k \in 1..Len(trace) :
            trace[k].ev = "validate" => k < Position("error")
       /\ StartsWithName(stderr[1], definition.arguments[Len(Validated)].name)
  /\ Exited(1) => Count("error") = 1
  /\ pc = "returned" =>
       Count("error") = 0 /\ Len(Validated) = Len(definition.arguments)

C11_Witness ==
  /\ Exited(1) /\ Len(definition.arguments) = 2
  /\ Len(Validated) = 1 /\ Count("error") = 1
  /\ ~validateArgument(parsedArgs, definition.arguments[2]).ok

-----------------------------------------------------------------------------
(* C12: on the success path the value validateArgs writes under the         *)
(* long-name key is the value validateArgument looked up for that argument: *)
(* the long-name key's value if that key is present, else the declared      *)
(* short-name key's value, else absent; for an argument without short name  *)
(* it never comes from another key of the mapping.                          *)
C12_LookedUp(parsed, a) ==
  IF a.name \in DOMAIN parsed THEN parsed[a.name]
  ELSE IF a.shortName # Undefined /\ a.shortName \in DOMAIN parsed
         THEN parsed[a.shortName]
  ELSE Undefined

C12_Step ==
  (pc = "loop" /\ i' = i + 1) =>
     /\ definition.arguments[i].name \in DOMAIN parsedArgs'
     /\ parsedArgs'[definition.arguments[i].name]
          = C12_LookedUp(parsedArgs, definition.arguments[i])

C12_WrittenIsLookedUp == [][C12_Step]_vars

-----------------------------------------------------------------------------
(* C13: buildArgLine(arg, w) with styling stripped is exactly two spaces,    *)
(* the label '--' + name (plus ', -' + shortName when there is a short       *)
(* name), max(w - labelLength + 4, 4) spaces, '(optional)' when required is  *)
(* explicitly false and '(required)' otherwise, ' - ' and the description;   *)
(* so for every w not greater than the label length exactly 4 spaces stand   *)
(* between the label and the annotation.                                     *)

C13_Label ==
  <<"-", "-">> \o Chars(arg.name)
    \o (IF arg.shortName \notin {Undefined, ""}
          THEN <<",", " ", "-">> \o Chars(arg.shortName) ELSE <<>>)

C13_Spaces ==
  IF lineLength - Len(C13_Label) + 4 > 4 THEN lineLength - Len(C13_Label) + 4 ELSE 4

C13_Annotation ==
  IF arg.required = JsFalse THEN <<"(", "o", "p", "t", "i", "o", "n", "a", "l", ")">>
  ELSE <<"(", "r", "e", "q", "u", "i", "r", "e", "d", ")">>

C13_WitnessWide ==
  /\ pc = "returned" /\ arg.shortName = Undefined /\ arg.required = Undefined
  /\ lineLength > Len(C13_Label) /\ C13_Spaces > 4

-----------------------------------------------------------------------------
(* C14: the help gate of validateArgs fires (help shown, exit 0) only if the *)
(* raw argument list is empty with anyArgRequired true, or the parsed        *)
(* mapping has a key equal to the configured long help flag, or a key equal  *)
(* to the configured short help flag when one is configured; when the        *)
(* configured pair has no short flag, no key other than the long help flag   *)
(* makes validateArgs show help and exit 0.                                  *)

C14_EmptyInvocation == Len(args) = 0 /\ definition.anyArgRequired = JsTrue

C14_GateOnlyOnListedConditions ==
  /\ Exited(0) => (C14_EmptyInvocation \/ HelpFlagPassed)
  /\ (Exited(0) /\ ShortHelpFlag = Undefined /\ Len(args) > 0)
       => LongHelpFlag \in DOMAIN origArgs

-----------------------------------------------------------------------------
(* C15: on a successful return, validateArgs leaves every key of the parsed  *)
(* mapping that is neither a declared long name nor a declared short name    *)
(* (the leftover-positional key '_' included) present with the value the     *)
(* parser produced; it removes or rewrites no such key.                      *)

C15_UndeclaredKeysKept ==
  pc = "returned" =>
    \A k \in DOMAIN origArgs :
      k \notin (LongNames \cup ShortNames)
        => (k \in DOMAIN ret /\ ret[k] = origArgs[k])

====
